---- MODULE Spec2Model ----
(***************************************************************************)
(* AsyncLoader (src/Common/AsyncLoader.h): a loader that runs load jobs    *)
(* with declared dependencies on a bounded pool of worker threads, under   *)
(* one mutex.  Every action below is one critical section of that mutex    *)
(* (or one public call that never releases it); iteration over an          *)
(* unordered_set is a choice of order.                                     *)
(***************************************************************************)
EXTENDS Integers, Sequences, FiniteSets, TLC

\* The LoadJob objects (LoadJobPtr values) the callers have constructed.
Jobs == {"A", "B", "C"}

\* A null LoadJobPtr (the worker's `job` before its first iteration).
NoJob == "null"

\* Priorities passed to schedule() and prioritize() are drawn from Priorities.
Priorities == {0, 1}

\* max_threads given to the constructor is drawn from ThreadCaps.
ThreadCaps == {1, 2}

\* The callers make at most MaxCalls calls of the public methods.
MaxCalls == 4

VARIABLES
    dependencies,     \* LoadJob::dependencies (const), Jobs -> SUBSET Jobs
    name,             \* LoadJob::name (const), a String: a sequence of text pieces
    is_finished,      \* LoadJob::is_finished
    exception,        \* LoadJob::exception
    priority,         \* LoadJob::priority (atomic, user-facing)
    scheduled_jobs,   \* AsyncLoader::scheduled_jobs, job -> Info
    ready_queue,      \* AsyncLoader::ready_queue, ReadyKey -> job
    finished_jobs,    \* AsyncLoader::finished_jobs
    is_running,       \* AsyncLoader::is_running
    last_ready_seqno, \* AsyncLoader::last_ready_seqno
    max_threads,      \* AsyncLoader::max_threads
    workers,          \* AsyncLoader::workers
    threads,          \* the pool: how many worker() loops hold each value of `job`
    tasks,            \* the job sets owned by live Task handles
    handle,           \* the Task objects the client holds: Task::loader, Task::jobs
    removers,         \* remove() calls blocked in job->waitNoThrow()
    stopping,         \* a stop() call is blocked in pool.wait()
    waiters,          \* LoadJob::waiters
    notified,         \* LoadJob::finished (condition variable): the threads blocked on it
                      \* have been notified and not all of them have gone on yet
    waiter,           \* a client thread's call of job->wait() or job->waitNoThrow()
    thrown,           \* the error code of the exception the call made by the last step threw
    cycle_report,     \* the job set and the chain in the message, when that exception
                      \* reports a dependency cycle
    calls,            \* history: number of setSuccess/setFailure calls per job
    moves,            \* history: number of finish() calls per job
    passed,           \* history: number of remove() calls whose job set held each job
    detached,         \* history: the jobs of the Task objects that detach() was called on
    started,          \* history: the jobs whose body a worker has invoked
    dispatched,       \* history: the ReadyKey under which each executing job was taken
    assert_failed,    \* history: some chassert() was violated (a no-op in release builds)
    ncalls            \* history: number of calls of public methods made so far

jobVars == <<dependencies, name, is_finished, exception, priority, waiters, notified>>
loaderVars == <<scheduled_jobs, ready_queue, finished_jobs, is_running,
                last_ready_seqno, max_threads, workers>>
vars == <<dependencies, name, is_finished, exception, priority, scheduled_jobs,
          ready_queue, finished_jobs, is_running, last_ready_seqno, max_threads,
          workers, threads, tasks, removers, stopping, calls, started,
          dispatched, assert_failed, ncalls, waiters, notified, waiter, thrown,
          cycle_report, moves, handle, passed, detached>>

----------------------------------------------------------------------------
\* Containers

\* std::map / std::unordered_map ::erase(key)
erase(m, k) == [x \in DOMAIN m \ {k} |-> m[x]]

\* ::emplace(key, value): inserts only when the key is absent
emplace(m, k, v) == IF k \in DOMAIN m THEN m ELSE (k :> v) @@ m

\* The empty map
EmptyMap == [x \in {} |-> x]

\* All orders in which a range-for may visit an unordered_set
Orders(S) == {f \in [1..Cardinality(S) -> S] : \A i, k \in 1..Cardinality(S) : f[i] = f[k] => i = k}

----------------------------------------------------------------------------
\* LoadJob

\* A null std::exception_ptr
NoException == [code |-> "none", message |-> <<>>]

\* LoadStatus of a job with the given is_finished and exception
statusOf(fin, exc) == IF ~fin THEN "PENDING" ELSE IF exc # NoException THEN "FAILED" ELSE "SUCCESS"

\* LoadJob::status()
status(job) == statusOf(is_finished[job], exception[job])

\* getExceptionMessage(e, with_stacktrace = false): the text of the exception
getExceptionMessage(e) == e.message

\* A failed body reported with the error code of a cancellation
LoadFailedAsCanceled(job) ==
    [code |-> "ASYNC_LOAD_CANCELED",
     message |-> <<"Load job '">> \o name[job] \o <<"' failed: ", "body exception">>]

\* The exception worker() builds when the body of `job` throws
LoadFailed(job) ==
    [code |-> "ASYNC_LOAD_FAILED",
     message |-> <<"Load job '">> \o name[job] \o <<"' failed: ", "body exception">>]

\* A cancellation reported with the error code of a failed body
LoadCanceledAsFailed(job) ==
    [code |-> "ASYNC_LOAD_FAILED",
     message |-> <<"Load job '">> \o name[job] \o <<"' canceled">>]

\* The exception canceled() builds
LoadCanceled(job) ==
    [code |-> "ASYNC_LOAD_CANCELED",
     message |-> <<"Load job '">> \o name[job] \o <<"' canceled">>]

\* A failed() that passes on the cancellation of the prerequisite as a cancellation of
\* the dependent
DependencyCanceled(dep, exception_from_job) == LoadCanceled(dep)

\* The exception failed() builds for a dependent job
DependencyFailed(dep, exception_from_job) ==
    [code |-> "ASYNC_LOAD_DEPENDENCY_FAILED",
     message |-> <<"Load job '">> \o name[dep] \o <<"' -> ">> \o getExceptionMessage(exception_from_job)]

----------------------------------------------------------------------------
\* AsyncLoader::ReadyKey and AsyncLoader::Info

ReadyKey(p, seqno) == [priority |-> p, ready_seqno |-> seqno]

\* A comparison by ready_seqno alone
ReadyKeyFifo(lhs, rhs) == lhs.ready_seqno < rhs.ready_seqno

\* A comparison that puts the later ready_seqno first within a priority
ReadyKeyLifo(lhs, rhs) ==
    IF lhs.priority = rhs.priority
    THEN lhs.ready_seqno > rhs.ready_seqno
    ELSE lhs.priority > rhs.priority

\* ReadyKey::operator<
ReadyKeyLess(lhs, rhs) ==
    IF lhs.priority = rhs.priority
    THEN lhs.ready_seqno < rhs.ready_seqno
    ELSE lhs.priority > rhs.priority

\* Info{.priority = p}
Info(p) == [priority |-> p, dependencies_left |-> 0, ready_seqno |-> 0, dependent_jobs |-> {}]

\* A key() that forgets the seqno under which the job was enqueued
keyWithoutSeqno(info) == ReadyKey(info.priority, 0)

\* Info::key()
key(info) == ReadyKey(info.priority, info.ready_seqno)

\* ready_queue.begin(): the entry with the least key
begin(queue) == CHOOSE k \in DOMAIN queue : \A k2 \in DOMAIN queue \ {k} : ReadyKeyLess(k, k2)

\* scheduled_jobs[job]: operator[] inserts a default Info when the key is absent
subscript(m, job) == IF job \in DOMAIN m THEN m ELSE (job :> Info(0)) @@ m

----------------------------------------------------------------------------
\* The part of the state the private methods work on, as one record

State ==
    [is_finished |-> is_finished, exception |-> exception, priority |-> priority,
     scheduled_jobs |-> scheduled_jobs, ready_queue |-> ready_queue,
     finished_jobs |-> finished_jobs, last_ready_seqno |-> last_ready_seqno,
     workers |-> workers, threads |-> threads, calls |-> calls,
     assert_failed |-> assert_failed, waiters |-> waiters, notified |-> notified,
     moves |-> moves]

Install(s) ==
    /\ is_finished' = s.is_finished
    /\ exception' = s.exception
    /\ priority' = s.priority
    /\ scheduled_jobs' = s.scheduled_jobs
    /\ ready_queue' = s.ready_queue
    /\ finished_jobs' = s.finished_jobs
    /\ last_ready_seqno' = s.last_ready_seqno
    /\ workers' = s.workers
    /\ threads' = s.threads
    /\ calls' = s.calls
    /\ assert_failed' = s.assert_failed
    /\ waiters' = s.waiters
    /\ notified' = s.notified
    /\ moves' = s.moves

\* chassert(cond)
chassert(s, cond) == [s EXCEPT !.assert_failed = @ \/ ~cond]

\* A completion that notifies nobody
notify_none(s, job) == s

\* if (waiters > 0) finished.notify_all()
notify_all(s, job) ==
    IF s.waiters[job] > 0 THEN [s EXCEPT !.notified[job] = TRUE] ELSE s

\* LoadJob::setSuccess
setSuccess(s, job) ==
    notify_all([s EXCEPT !.is_finished[job] = TRUE, !.calls[job] = @ + 1], job)

\* LoadJob::setFailure
setFailure(s, job, ptr) ==
    notify_all([s EXCEPT !.is_finished[job] = TRUE, !.exception[job] = ptr,
                         !.calls[job] = @ + 1], job)

\* LoadJob::wait / waitNoThrow up to finished.wait(): waiters++
waitEnter(s, job) == [s EXCEPT !.waiters[job] = @ + 1]

\* LoadJob::wait / waitNoThrow once the predicate of finished.wait() holds: waiters--
waitLeave(s, job) ==
    [s EXCEPT !.waiters[job] = @ - 1,
              !.notified[job] = @ /\ s.waiters[job] > 1]

\* AsyncLoader::spawn
spawn(s) ==
    [s EXCEPT !.workers = @ + 1, !.threads[NoJob] = @ + 1]

\* An enqueue() that spawns a worker whether or not the loader is running
enqueueSpawnAlways(s, job) ==
    LET info == s.scheduled_jobs[job]
        seqno == s.last_ready_seqno + 1
        s1 == [s EXCEPT !.last_ready_seqno = seqno,
                        !.scheduled_jobs[job].ready_seqno = seqno,
                        !.ready_queue = emplace(@, ReadyKey(info.priority, seqno), job)]
    IN  IF s1.workers < max_threads THEN spawn(s1) ELSE s1

\* An enqueue() that never spawns a worker
enqueueNoSpawn(s, job) ==
    LET info == s.scheduled_jobs[job]
        seqno == s.last_ready_seqno + 1
    IN  [s EXCEPT !.last_ready_seqno = seqno,
                  !.scheduled_jobs[job].ready_seqno = seqno,
                  !.ready_queue = emplace(@, ReadyKey(info.priority, seqno), job)]

\* An enqueue() that numbers the job without advancing the counter
enqueueStaleCounter(s, job) ==
    LET info == s.scheduled_jobs[job]
        seqno == s.last_ready_seqno + 1
        s1 == [s EXCEPT !.scheduled_jobs[job].ready_seqno = seqno,
                        !.ready_queue = emplace(@, ReadyKey(info.priority, seqno), job)]
    IN  IF is_running /\ s1.workers < max_threads THEN spawn(s1) ELSE s1

\* AsyncLoader::enqueue
enqueue(s, job) ==
    LET info == s.scheduled_jobs[job]
        s0 == chassert(chassert(s, info.dependencies_left = 0), info.ready_seqno = 0)
        seqno == s0.last_ready_seqno + 1
        s1 == [s0 EXCEPT !.last_ready_seqno = seqno,
                         !.scheduled_jobs[job].ready_seqno = seqno,
                         !.ready_queue = emplace(@, ReadyKey(info.priority, seqno), job)]
    IN  IF is_running /\ s1.workers < max_threads THEN spawn(s1) ELSE s1

\* AsyncLoader::finish
finish(s, job) ==
    [s EXCEPT !.scheduled_jobs = erase(@, job), !.finished_jobs = @ \cup {job},
              !.moves[job] = @ + 1]

\* A prioritize() that puts the job in the ready queue under its new key whether or not
\* it was there
RECURSIVE prioritizeReinsert(_, _, _)
RECURSIVE prioritizeReinsertDeps(_, _, _)
prioritizeReinsert(s, job, new_priority) ==
    IF job \notin DOMAIN s.scheduled_jobs THEN s
    ELSE LET info == s.scheduled_jobs[job] IN
         IF info.priority >= new_priority THEN s
         ELSE LET erased == IF info.ready_seqno # 0
                            THEN erase(s.ready_queue, key(info)) ELSE s.ready_queue
                  raised == [info EXCEPT !.priority = new_priority]
                  s1 == [s EXCEPT !.ready_queue = emplace(erased, key(raised), job),
                                  !.scheduled_jobs[job] = raised,
                                  !.priority[job] = new_priority]
              IN  prioritizeReinsertDeps(s1, dependencies[job], new_priority)

\* the loop over job->dependencies of that prioritize()
prioritizeReinsertDeps(s, deps, new_priority) ==
    IF deps = {} THEN s
    ELSE LET dep == CHOOSE d \in deps : TRUE
         IN  prioritizeReinsertDeps(prioritizeReinsert(s, dep, new_priority), deps \ {dep},
                                    new_priority)

\* AsyncLoader::prioritize(job, new_priority, lock)
RECURSIVE prioritize(_, _, _)
RECURSIVE prioritizeDeps(_, _, _)
prioritize(s, job, new_priority) ==
    IF job \notin DOMAIN s.scheduled_jobs THEN s
    ELSE LET info == s.scheduled_jobs[job] IN
         IF info.priority >= new_priority THEN s
         ELSE LET erased == IF info.ready_seqno # 0
                            THEN erase(s.ready_queue, key(info)) ELSE s.ready_queue
                  raised == [info EXCEPT !.priority = new_priority]
                  queue == IF info.ready_seqno # 0
                           THEN emplace(erased, key(raised), job) ELSE erased
                  s1 == [s EXCEPT !.ready_queue = queue,
                                  !.scheduled_jobs[job] = raised,
                                  !.priority[job] = new_priority]
              IN  prioritizeDeps(s1, dependencies[job], new_priority)

\* the loop `for (const auto & dep : job->dependencies) prioritize(dep, ...)`
prioritizeDeps(s, deps, new_priority) ==
    IF deps = {} THEN s
    ELSE LET dep == CHOOSE d \in deps : TRUE
         IN  prioritizeDeps(prioritize(s, dep, new_priority), deps \ {dep}, new_priority)

\* A loop body of loaded() that counts the dependency off and never enqueues
loadedDepNoEnqueue(s, dep) ==
    [s EXCEPT !.scheduled_jobs[dep].dependencies_left = @ - 1]

\* the body of the loop of loaded() for one dependent job
loadedDep(s, dep) ==
    LET s0 == chassert(s, dep \in DOMAIN s.scheduled_jobs)
        s1 == [s0 EXCEPT !.scheduled_jobs = subscript(@, dep)]
        left == s1.scheduled_jobs[dep].dependencies_left - 1
        s2 == [s1 EXCEPT !.scheduled_jobs[dep].dependencies_left = left]
    IN  IF left = 0 THEN enqueue(s2, dep) ELSE s2

\* the loop of loaded(), in every order of the dependent jobs
RECURSIVE loadedLoop(_, _)
loadedLoop(s, deps) ==
    IF deps = {} THEN {s}
    ELSE UNION {loadedLoop(loadedDep(s, dep), deps \ {dep}) : dep \in deps}

\* AsyncLoader::loaded: the states it may leave
loaded(s, job) ==
    LET s0 == chassert(setSuccess(s, job), job \in DOMAIN s.scheduled_jobs)
        s1 == [s0 EXCEPT !.scheduled_jobs = subscript(@, job)]
    IN  {finish(t, job) : t \in loadedLoop(s1, s1.scheduled_jobs[job].dependent_jobs)}

\* A loop "Clean dependency graph edges" that erases the prerequisites themselves
cleanEdgesEraseDeps(s, job) ==
    [s EXCEPT !.scheduled_jobs = [d \in DOMAIN @ \ dependencies[job] |-> @[d]]]

\* the loop "Clean dependency graph edges" of failed()
cleanEdges(s, job) ==
    LET m == s.scheduled_jobs
        cleaned == [d \in DOMAIN m |->
                      IF d \in dependencies[job]
                      THEN [m[d] EXCEPT !.dependent_jobs = @ \ {job}]
                      ELSE m[d]]
    IN  [s EXCEPT !.scheduled_jobs = cleaned]

\* AsyncLoader::failed: the states it may leave
RECURSIVE failed(_, _, _)
RECURSIVE failedLoop(_, _, _)
failed(s, job, exception_from_job) ==
    LET s0 == chassert(setFailure(s, job, exception_from_job), job \in DOMAIN s.scheduled_jobs)
        s1 == [s0 EXCEPT !.scheduled_jobs = subscript(@, job)]
        dependent == s1.scheduled_jobs[job].dependent_jobs
        s2 == [s1 EXCEPT !.scheduled_jobs[job].dependent_jobs = {}]
    IN  {finish(cleanEdges(t, job), job) : t \in failedLoop(s2, dependent, exception_from_job)}

\* the loop "Recurse into all dependent jobs" of failed(), in every order
failedLoop(s, dependent, exception_from_job) ==
    IF dependent = {} THEN {s}
    ELSE UNION {UNION {failedLoop(t, dependent \ {dep}, exception_from_job) :
                          t \in failed(s, dep, DependencyFailed(dep, exception_from_job))} :
                dep \in dependent}

\* A canceled() that fails the job alone and leaves its dependent jobs as they are
canceledAlone(s, job) == {finish(setFailure(s, job, LoadCanceled(job)), job)}

\* AsyncLoader::canceled
canceled(s, job) == failed(s, job, LoadCanceled(job))

----------------------------------------------------------------------------
\* Cycle detection

\* A format that puts the arguments the other way round: "{1} -> {0}"
formatChainReversed(a, b) == b \o <<" -> ">> \o a

\* fmt::format("{} -> {}", a, b)
formatChain(a, b) == a \o <<" -> ">> \o b

\* AsyncLoader::checkCycleImpl on c = [left, visited]: the results it may give,
\* each [left, visited, chain (the returned String), threw]
RECURSIVE checkCycleImpl(_, _)
RECURSIVE checkCycleDeps(_, _, _)
checkCycleImpl(c, job) ==
    IF job \notin c.left
    THEN {[left |-> c.left, visited |-> c.visited, chain |-> <<>>, threw |-> FALSE]}
    ELSE IF job \in c.visited
    THEN {[left |-> c.left, visited |-> c.visited \ {job}, chain |-> name[job], threw |-> FALSE]}
    ELSE checkCycleDeps([left |-> c.left, visited |-> c.visited \cup {job}], job, dependencies[job])

\* the loop over job->dependencies of checkCycleImpl, in every order
checkCycleDeps(c, job, deps) ==
    IF deps = {}
    THEN {[left |-> c.left \ {job}, visited |-> c.visited, chain |-> <<>>, threw |-> FALSE]}
    ELSE UNION {UNION {
            IF r.threw THEN {r}
            ELSE IF r.chain # <<>>
            THEN IF job \notin r.visited
                 THEN {[r EXCEPT !.threw = TRUE, !.chain = formatChain(name[job], r.chain)]}
                 ELSE {[r EXCEPT !.chain = formatChain(name[job], r.chain)]}
            ELSE checkCycleDeps([left |-> r.left, visited |-> r.visited], job, deps \ {dep}) :
            r \in checkCycleImpl(c, dep)} : dep \in deps}

\* the loop `while (!left.empty())` of checkCycle
RECURSIVE checkCycleLoop(_)
checkCycleLoop(c) ==
    IF c.left = {} THEN {[threw |-> FALSE, chain |-> <<>>]}
    ELSE UNION {UNION {
            IF r.threw THEN {[threw |-> TRUE, chain |-> r.chain]}
            ELSE checkCycleLoop([left |-> r.left, visited |-> r.visited]) :
            r \in checkCycleImpl(c, job)} : job \in c.left}

\* AsyncLoader::checkCycle: the outcomes it may have, each [threw, chain]
checkCycle(jobs) == checkCycleLoop([left |-> jobs, visited |-> {}])

----------------------------------------------------------------------------
\* schedule, remove

\* Sanity checks that look at the status of the jobs only
sanityFailsFinishedOnly(jobs) ==
    \E job \in jobs : status(job) # "PENDING"

\* the "Sanity checks" loop of schedule(): some job makes it throw
sanityFails(jobs) ==
    \E job \in jobs : status(job) # "PENDING" \/ job \in DOMAIN scheduled_jobs

\* A loop "Schedule all incoming jobs" that leaves out job->priority.store(priority)
scheduleEmplaceNoStore(s, jobs, new_priority) ==
    [s EXCEPT !.scheduled_jobs =
                  [j \in DOMAIN @ \cup jobs |-> IF j \in DOMAIN @ THEN @[j] ELSE Info(new_priority)]]

\* the loop "Schedule all incoming jobs" of schedule()
scheduleEmplace(s, jobs, new_priority) ==
    [s EXCEPT !.scheduled_jobs =
                  [j \in DOMAIN @ \cup jobs |-> IF j \in DOMAIN @ THEN @[j] ELSE Info(new_priority)],
              !.priority = [j \in Jobs |-> IF j \in jobs THEN new_priority ELSE @[j]]]

\* A loop over job->dependencies that counts the prerequisites absent from the pending
\* map too
RECURSIVE scheduleDepsCountAll(_, _, _, _)
scheduleDepsCountAll(s, job, deps, new_priority) ==
    IF deps = {} THEN s
    ELSE LET dep == CHOOSE d \in deps : TRUE
             s1 == IF dep \in DOMAIN s.scheduled_jobs
                   THEN [s EXCEPT !.scheduled_jobs[dep].dependent_jobs = @ \cup {job},
                                  !.scheduled_jobs[job].dependencies_left = @ + 1]
                   ELSE [s EXCEPT !.scheduled_jobs[job].dependencies_left = @ + 1]
         IN  scheduleDepsCountAll(prioritize(s1, dep, new_priority), job, deps \ {dep},
                                  new_priority)

\* the loop over job->dependencies inside "Process incoming dependencies"
RECURSIVE scheduleDeps(_, _, _, _)
scheduleDeps(s, job, deps, new_priority) ==
    IF deps = {} THEN s
    ELSE LET dep == CHOOSE d \in deps : TRUE
             s1 == IF dep \in DOMAIN s.scheduled_jobs
                   THEN [s EXCEPT !.scheduled_jobs[dep].dependent_jobs = @ \cup {job},
                                  !.scheduled_jobs[job].dependencies_left = @ + 1]
                   ELSE s
         IN  scheduleDeps(prioritize(s1, dep, new_priority), job, deps \ {dep}, new_priority)

\* the loop "Process incoming dependencies" of schedule(), visiting the jobs in `order`
RECURSIVE scheduleProcess(_, _, _)
scheduleProcess(s, order, new_priority) ==
    IF order = <<>> THEN s
    ELSE LET job == Head(order)
             s1 == scheduleDeps(s, job, dependencies[job], new_priority)
             s2 == IF s1.scheduled_jobs[job].dependencies_left = 0 THEN enqueue(s1, job) ELSE s1
         IN  scheduleProcess(s2, Tail(order), new_priority)

\* AsyncLoader::schedule past its checks
schedule(s, jobs, order, new_priority) ==
    scheduleProcess(scheduleEmplace(s, jobs, new_priority), order, new_priority)

\* AsyncLoader::remove from the job at the head of `order` on: the points it may
\* reach, each [state, left (jobs not visited yet), waiting (the executing job it
\* blocks on in waitNoThrow, or NoJob when the loop ended)]
RECURSIVE remove(_, _)
remove(s, order) ==
    IF order = <<>> THEN {[state |-> s, left |-> <<>>, waiting |-> NoJob]}
    ELSE LET job == Head(order) IN
         IF job \in s.finished_jobs
         THEN remove([s EXCEPT !.finished_jobs = @ \ {job}], Tail(order))
         ELSE IF job \in DOMAIN s.scheduled_jobs
         THEN LET info == s.scheduled_jobs[job] IN
              IF info.dependencies_left > 0
              THEN UNION {remove([t EXCEPT !.finished_jobs = @ \ {job}], Tail(order)) :
                             t \in canceled(s, job)}
              ELSE IF info.ready_seqno # 0
              THEN LET s1 == [s EXCEPT !.ready_queue = erase(@, key(info)),
                                       !.scheduled_jobs[job].ready_seqno = 0]
                   IN  UNION {remove([t EXCEPT !.finished_jobs = @ \ {job}], Tail(order)) :
                                 t \in canceled(s1, job)}
              ELSE IF s.is_finished[job]
              THEN remove([waitLeave(waitEnter(s, job), job) EXCEPT !.finished_jobs = @ \ {job}],
                          Tail(order))
              ELSE {[state |-> waitEnter(s, job), left |-> Tail(order), waiting |-> job]}
         ELSE remove(s, Tail(order))

\* A remove() that leaves the job it has waited for in finished_jobs
removeAfterWaitKeep(s, job, order) ==
    remove(waitLeave(s, job), order)

\* the rest of remove() once waitNoThrow() returned for `job`
removeAfterWait(s, job, order) ==
    remove([waitLeave(s, job) EXCEPT !.finished_jobs = @ \ {job}], order)

\* A spawn loop of start() that looks at the depth of the ready queue and not at the cap
RECURSIVE startLoopNoCap(_, _)
startLoopNoCap(s, i) ==
    IF i < Cardinality(DOMAIN s.ready_queue)
    THEN startLoopNoCap(spawn(s), i + 1)
    ELSE s

\* AsyncLoader::start: the spawn loop from iteration i on (is_running is set by the action)
RECURSIVE startLoop(_, _)
startLoop(s, i) ==
    IF s.workers < max_threads /\ i < Cardinality(DOMAIN s.ready_queue)
    THEN startLoop(spawn(s), i + 1)
    ELSE s

----------------------------------------------------------------------------
\* History records

\* no ReadyKey: the job is not executing
NoKey == ReadyKey(0, 0)

----------------------------------------------------------------------------
\* Initial states

\* A LoadJob is constructed from jobs that exist already: with the jobs constructed
\* in the order A, B, C these are the dependency edges that may be declared.
ConstructibleEdges == {<<"B", "A">>, <<"C", "A">>, <<"C", "B">>}

\* The graphs in which B declares A: B alone, B and C on A, the chain C -> B -> A,
\* and the triangle, where C declares both A and B
DependencyGraphs ==
    {[j \in Jobs |-> {d \in Jobs : <<j, d>> \in E}] :
        E \in {F \in SUBSET ConstructibleEdges : <<"B", "A">> \in F}}

\* The Task objects of the client
Handles == {"t1", "t2"}

\* Task(): loader(nullptr), and a Task after detach()
NoTask == [loader |-> FALSE, jobs |-> {}]

\* The Task objects and their history, which only the operations on Task objects change
taskVars == <<handle, detached>>

\* No dependency cycle was reported
NoCycle == [jobs |-> {}, chain |-> <<>>]

\* No call of wait() or waitNoThrow() has been made by the client thread
NoWait == [job |-> NoJob, nothrow |-> FALSE, pc |-> "idle", exception |-> NoException]

\* The state after the constructors of the jobs and of AsyncLoader, except for the
\* dependencies and names of the jobs
InitLoader ==
    /\ is_finished = [j \in Jobs |-> FALSE]
    /\ exception = [j \in Jobs |-> NoException]
    /\ priority = [j \in Jobs |-> 0]
    /\ scheduled_jobs = EmptyMap
    /\ ready_queue = EmptyMap
    /\ finished_jobs = {}
    /\ is_running = FALSE
    /\ last_ready_seqno = 0
    /\ workers = 0
    /\ threads = [x \in Jobs \cup {NoJob} |-> 0]
    /\ tasks = {}
    /\ removers = {}
    /\ stopping = FALSE
    /\ calls = [j \in Jobs |-> 0]
    /\ started = {}
    /\ dispatched = [j \in Jobs |-> NoKey]
    /\ assert_failed = FALSE
    /\ ncalls = 0
    /\ waiters = [j \in Jobs |-> 0]
    /\ notified = [j \in Jobs |-> FALSE]
    /\ waiter = NoWait
    /\ thrown = "none"
    /\ cycle_report = NoCycle
    /\ moves = [j \in Jobs |-> 0]
    /\ handle = [h \in Handles |-> NoTask]
    /\ passed = [j \in Jobs |-> 0]
    /\ detached = {}

Init ==
    /\ dependencies \in DependencyGraphs
    /\ name = [j \in Jobs |-> <<j>>]
    /\ max_threads \in ThreadCaps
    /\ InitLoader

----------------------------------------------------------------------------
\* Actions

\* schedule(jobs, p) returns a Task
Schedule(jobs, p) ==
    /\ ncalls < MaxCalls
    /\ ncalls' = ncalls + 1
    /\ ~sanityFails(jobs)
    /\ \E c \in checkCycle(jobs) : ~c.threw
    /\ \E order \in Orders(jobs) : Install(schedule(State, jobs, order, p))
    /\ tasks' = tasks \cup {jobs}
    /\ thrown' = "none"
    /\ cycle_report' = NoCycle
    /\ UNCHANGED <<dependencies, name, is_running, max_threads, removers, stopping, started,
                   dispatched, waiter>>

\* schedule(jobs, p) throws ASYNC_LOAD_SCHEDULE_FAILED
ScheduleFailed(jobs) ==
    /\ ncalls < MaxCalls
    /\ ncalls' = ncalls + 1
    /\ IF sanityFails(jobs)
       THEN cycle_report' = NoCycle
       ELSE \E c \in checkCycle(jobs) :
               c.threw /\ cycle_report' = [jobs |-> jobs, chain |-> c.chain]
    /\ thrown' = "ASYNC_LOAD_SCHEDULE_FAILED"
    /\ UNCHANGED <<dependencies, name, is_finished, exception, priority, scheduled_jobs,
                   ready_queue, finished_jobs, is_running, last_ready_seqno, max_threads,
                   workers, threads, tasks, removers, stopping, calls, started,
                   dispatched, assert_failed, waiters, notified, waiter, moves>>

\* prioritize(job, p)
Prioritize(job, p) ==
    /\ ncalls < MaxCalls
    /\ ncalls' = ncalls + 1
    /\ Install(prioritize(State, job, p))
    /\ thrown' = "none"
    /\ cycle_report' = NoCycle
    /\ UNCHANGED <<dependencies, name, is_running, max_threads, tasks, removers, stopping,
                   started, dispatched, waiter>>

\* A Task that owns `jobs` is dropped: Task::remove calls loader->remove(jobs), which
\* runs to its end or to the first executing job, where it blocks
TaskRemove(jobs) ==
    /\ ncalls < MaxCalls
    /\ ncalls' = ncalls + 1
    /\ jobs \in tasks
    /\ \E order \in Orders(jobs) : \E r \in remove(State, order) :
          /\ Install(r.state)
          /\ IF r.waiting = NoJob
             THEN /\ removers' = removers
             ELSE /\ removers' = removers \cup
                        {[jobs |-> jobs, order |-> order, left |-> r.left, waiting |-> r.waiting]}
    /\ tasks' = tasks \ {jobs}
    /\ passed' = [j \in Jobs |-> IF j \in jobs THEN passed[j] + 1 ELSE passed[j]]
    /\ thrown' = "none"
    /\ cycle_report' = NoCycle
    /\ UNCHANGED <<dependencies, name, is_running, max_threads, stopping, started, dispatched,
                   waiter>>

\* A remove() blocked in waitNoThrow() is woken, finds the job finished, and goes on
RemoveResume(rm) ==
    /\ ncalls' = ncalls
    /\ rm \in removers
    /\ notified[rm.waiting]
    /\ is_finished[rm.waiting]
    /\ \E r \in removeAfterWait(State, rm.waiting, rm.left) :
          /\ Install(r.state)
          /\ IF r.waiting = NoJob
             THEN /\ removers' = removers \ {rm}
             ELSE /\ removers' = (removers \ {rm}) \cup
                        {[rm EXCEPT !.left = r.left, !.waiting = r.waiting]}
    /\ thrown' = "none"
    /\ cycle_report' = NoCycle
    /\ UNCHANGED <<dependencies, name, is_running, max_threads, tasks, stopping, started,
                   dispatched, waiter>>

\* start()
Start ==
    /\ ncalls < MaxCalls
    /\ ncalls' = ncalls + 1
    /\ is_running' = TRUE
    /\ Install(startLoop(State, 0))
    /\ thrown' = "none"
    /\ cycle_report' = NoCycle
    /\ UNCHANGED <<dependencies, name, max_threads, tasks, removers, stopping, started,
                   dispatched, waiter>>

\* stop() up to pool.wait()
StopBegin ==
    /\ ncalls < MaxCalls
    /\ ncalls' = ncalls + 1
    /\ ~stopping
    /\ is_running' = FALSE
    /\ stopping' = TRUE
    /\ thrown' = "none"
    /\ cycle_report' = NoCycle
    /\ UNCHANGED <<dependencies, name, is_finished, exception, priority, scheduled_jobs,
                   ready_queue, finished_jobs, last_ready_seqno, max_threads, workers,
                   threads, tasks, removers, calls, started, dispatched,
                   assert_failed, waiters, notified, waiter, moves>>

\* pool.wait() returns in stop(): every worker() has returned
StopEnd ==
    /\ ncalls' = ncalls
    /\ stopping
    /\ \A x \in Jobs \cup {NoJob} : threads[x] = 0
    /\ stopping' = FALSE
    /\ thrown' = "none"
    /\ cycle_report' = NoCycle
    /\ UNCHANGED <<dependencies, name, is_finished, exception, priority, scheduled_jobs,
                   ready_queue, finished_jobs, is_running, last_ready_seqno, max_threads,
                   workers, threads, tasks, removers, calls, started, dispatched,
                   assert_failed, waiters, notified, waiter, moves>>

\* One critical section of worker() in a thread whose `job` is x: it commits the job
\* it has just executed (the body threw: raised), then returns or takes the next job
Worker(x, raised) ==
    /\ ncalls' = ncalls
    /\ threads[x] > 0
    /\ x = NoJob => ~raised
    /\ \E s \in (IF x = NoJob THEN {State}
                  ELSE IF raised THEN failed(State, x, LoadFailed(x))
                  ELSE loaded(State, x)) :
          LET done == [j \in Jobs |-> IF j = x THEN NoKey ELSE dispatched[j]] IN
          IF ~is_running
          THEN /\ Install([s EXCEPT !.threads[x] = @ - 1])
               /\ dispatched' = done
               /\ started' = started
          ELSE IF DOMAIN s.ready_queue = {}
          THEN /\ Install([s EXCEPT !.workers = @ - 1, !.threads[x] = @ - 1])
               /\ dispatched' = done
               /\ started' = started
          ELSE LET it == begin(s.ready_queue)
                   job == s.ready_queue[it]
                   taken == [s EXCEPT !.ready_queue = erase(@, it),
                                      !.scheduled_jobs[job].ready_seqno = 0,
                                      !.threads[x] = @ - 1]
               IN  /\ Install([taken EXCEPT !.threads[job] = @ + 1])
                   /\ dispatched' = [done EXCEPT ![job] = it]
                   /\ started' = started \cup {job}
    /\ thrown' = "none"
    /\ cycle_report' = NoCycle
    /\ UNCHANGED <<dependencies, name, is_running, max_threads, tasks, removers, stopping,
                   waiter>>

\* The client keeps each Task that schedule() returns until it drops it, and the only
\* remove() calls are those of the dropped Tasks
Next ==
    \/ \E jobs \in SUBSET Jobs \ {{}} : \E p \in Priorities :
          Schedule(jobs, p) /\ UNCHANGED <<taskVars, passed>>
    \/ \E jobs \in SUBSET Jobs \ {{}} : ScheduleFailed(jobs) /\ UNCHANGED <<taskVars, passed>>
    \/ \E job \in Jobs : \E p \in Priorities :
          Prioritize(job, p) /\ UNCHANGED <<taskVars, passed>>
    \/ \E jobs \in tasks : TaskRemove(jobs) /\ UNCHANGED taskVars
    \/ \E rm \in removers : RemoveResume(rm) /\ UNCHANGED <<taskVars, passed>>
    \/ Start /\ UNCHANGED <<taskVars, passed>>
    \/ StopBegin /\ UNCHANGED <<taskVars, passed>>
    \/ StopEnd /\ UNCHANGED <<taskVars, passed>>
    \/ \E x \in Jobs \cup {NoJob} : \E raised \in BOOLEAN :
          Worker(x, raised) /\ UNCHANGED <<taskVars, passed>>

Spec == Init /\ [][Next]_vars

----------------------------------------------------------------------------
\* Client threads that wait for a job

\* What wait() / waitNoThrow() does once is_finished holds:
\* if (exception) std::rethrow_exception(exception), in wait() only
waitReturn(job, nothrow) ==
    IF ~nothrow /\ exception[job] # NoException
    THEN [job |-> job, nothrow |-> nothrow, pc |-> "raised", exception |-> exception[job]]
    ELSE [job |-> job, nothrow |-> nothrow, pc |-> "returned", exception |-> NoException]

\* The client thread calls job->wait() (or job->waitNoThrow()): it returns at once when
\* the job is finished and blocks in finished.wait() otherwise
WaitCall(job, nothrow) ==
    /\ ncalls < MaxCalls
    /\ ncalls' = ncalls + 1
    /\ waiter.pc # "blocked"
    /\ IF is_finished[job]
       THEN /\ Install(waitLeave(waitEnter(State, job), job))
            /\ waiter' = waitReturn(job, nothrow)
       ELSE /\ Install(waitEnter(State, job))
            /\ waiter' = [job |-> job, nothrow |-> nothrow, pc |-> "blocked",
                          exception |-> NoException]
    /\ thrown' = waiter'.exception.code
    /\ cycle_report' = NoCycle
    /\ UNCHANGED <<dependencies, name, is_running, max_threads, tasks, removers, stopping,
                   started, dispatched>>

\* The blocked client thread is woken by notify_all(), finds is_finished and leaves
\* wait() (or waitNoThrow())
WaitWake ==
    /\ ncalls' = ncalls
    /\ waiter.pc = "blocked"
    /\ notified[waiter.job]
    /\ is_finished[waiter.job]
    /\ Install(waitLeave(State, waiter.job))
    /\ waiter' = waitReturn(waiter.job, waiter.nothrow)
    /\ thrown' = waiter'.exception.code
    /\ cycle_report' = NoCycle
    /\ UNCHANGED <<dependencies, name, is_running, max_threads, tasks, removers, stopping,
                   started, dispatched>>

\* B declares A, C is free
WaitGraph == [j \in Jobs |-> IF j = "B" THEN {"A"} ELSE {}]

WaitInit ==
    /\ dependencies = WaitGraph
    /\ name = [j \in Jobs |-> <<j>>]
    /\ max_threads \in ThreadCaps
    /\ InitLoader

WaitNext ==
    \/ Next
    \/ \E job \in Jobs : \E nothrow \in BOOLEAN :
          WaitCall(job, nothrow) /\ UNCHANGED <<taskVars, passed>>
    \/ WaitWake /\ UNCHANGED <<taskVars, passed>>

WaitSpec == WaitInit /\ [][WaitNext]_vars

----------------------------------------------------------------------------
\* Job sets with dependency cycles

\* LoadJob::dependencies is const, so a cycle is closed after construction (as the
\* unit test of the cycle check does with a const_cast). The graphs: A <-> C with B
\* free, A on itself, the ring A -> B -> C -> A, and B hanging on the cycle A <-> C.
CyclicGraphs ==
    {[j \in Jobs |-> {d \in Jobs : <<j, d>> \in E}] :
        E \in {{<<"A", "C">>, <<"C", "A">>},
               {<<"A", "A">>},
               {<<"A", "B">>, <<"B", "C">>, <<"C", "A">>},
               {<<"B", "A">>, <<"A", "C">>, <<"C", "A">>}}}

\* LoadJob::name is any String: every job named after itself, or A with the empty name
JobNames ==
    {[j \in Jobs |-> <<j>>], [j \in Jobs |-> IF j = "A" THEN <<>> ELSE <<j>>]}

CycleInit ==
    /\ dependencies \in CyclicGraphs
    /\ name \in JobNames
    /\ max_threads \in ThreadCaps
    /\ InitLoader

CycleSpec == CycleInit /\ [][Next]_vars

----------------------------------------------------------------------------
\* Task objects

\* The job sets owned by the Task objects of h that have a loader
ownedSets(h) == {h[x].jobs : x \in {y \in Handles : h[y].loader}}

\* Task t = loader.schedule(jobs, p): the Task that schedule() returns is constructed
\* from the loader and the job set
TaskSchedule(t, jobs, p) ==
    /\ handle[t] = NoTask
    /\ Schedule(jobs, p)
    /\ handle' = [handle EXCEPT ![t] = [loader |-> TRUE, jobs |-> jobs]]
    /\ UNCHANGED <<passed, detached>>

\* Task t(std::move(o)): Task(Task && o), for a new object t
TaskMoveConstruct(t, o) ==
    /\ ncalls < MaxCalls
    /\ ncalls' = ncalls + 1
    /\ t # o
    /\ handle[t] = NoTask
    /\ handle' = [handle EXCEPT ![t] = handle[o], ![o] = NoTask]
    /\ tasks' = ownedSets(handle')
    /\ thrown' = "none"
    /\ cycle_report' = NoCycle
    /\ UNCHANGED <<jobVars, loaderVars, threads, removers, stopping, waiter, calls, moves,
                   started, dispatched, assert_failed, passed, detached>>

\* Task::operator=(Task && o) on the states of the two objects: loader is taken from o
\* and o.loader becomes null, jobs is moved from o.jobs
moveAssign(h, t, o) == [h EXCEPT ![t] = h[o], ![o] = NoTask]

\* t = std::move(o): whatever t held is overwritten
TaskMoveAssign(t, o) ==
    /\ ncalls < MaxCalls
    /\ ncalls' = ncalls + 1
    /\ t # o
    /\ handle' = moveAssign(handle, t, o)
    /\ tasks' = ownedSets(handle')
    /\ thrown' = "none"
    /\ cycle_report' = NoCycle
    /\ UNCHANGED <<jobVars, loaderVars, threads, removers, stopping, waiter, calls, moves,
                   started, dispatched, assert_failed, passed, detached>>

\* t.merge(std::move(o)); std::unordered_set::merge leaves in o.jobs the jobs that
\* t.jobs holds already
TaskMerge(t, o) ==
    /\ ncalls < MaxCalls
    /\ ncalls' = ncalls + 1
    /\ t # o
    /\ IF ~handle[t].loader
       THEN /\ handle' = moveAssign(handle, t, o)
            /\ assert_failed' = assert_failed
       ELSE /\ handle' = [handle EXCEPT
                             ![t] = [loader |-> TRUE, jobs |-> handle[t].jobs \cup handle[o].jobs],
                             ![o] = [loader |-> FALSE,
                                     jobs |-> handle[o].jobs \cap handle[t].jobs]]
            /\ assert_failed' = (assert_failed \/ ~handle[o].loader)
    /\ tasks' = ownedSets(handle')
    /\ thrown' = "none"
    /\ cycle_report' = NoCycle
    /\ UNCHANGED <<jobVars, loaderVars, threads, removers, stopping, waiter, calls, moves,
                   started, dispatched, passed, detached>>

\* t.remove(), also as called by ~Task(): with a loader, loader->remove(jobs) and then
\* detach(); without one, nothing
TaskDrop(t) ==
    /\ IF handle[t].loader
       THEN TaskRemove(handle[t].jobs)
       ELSE /\ ncalls < MaxCalls
            /\ ncalls' = ncalls + 1
            /\ thrown' = "none"
            /\ cycle_report' = NoCycle
            /\ UNCHANGED <<jobVars, loaderVars, threads, tasks, removers, stopping, waiter,
                           calls, moves, started, dispatched, assert_failed, passed>>
    /\ handle' = [handle EXCEPT ![t] = NoTask]
    /\ UNCHANGED detached

\* t.detach()
TaskDetach(t) ==
    /\ ncalls < MaxCalls
    /\ ncalls' = ncalls + 1
    /\ handle' = [handle EXCEPT ![t] = NoTask]
    /\ detached' = detached \cup handle[t].jobs
    /\ tasks' = ownedSets(handle')
    /\ thrown' = "none"
    /\ cycle_report' = NoCycle
    /\ UNCHANGED <<jobVars, loaderVars, threads, removers, stopping, waiter, calls, moves,
                   started, dispatched, assert_failed, passed>>

\* The client holds the Tasks in the objects t1 and t2 and moves, merges, detaches and
\* drops them while the loader runs
TaskNext ==
    \/ \E t \in Handles : \E jobs \in SUBSET Jobs \ {{}} : \E p \in Priorities :
          TaskSchedule(t, jobs, p)
    \/ \E t, o \in Handles : TaskMoveConstruct(t, o)
    \/ \E t, o \in Handles : TaskMoveAssign(t, o)
    \/ \E t, o \in Handles : TaskMerge(t, o)
    \/ \E t \in Handles : TaskDrop(t)
    \/ \E t \in Handles : TaskDetach(t)
    \/ \E rm \in removers : RemoveResume(rm) /\ UNCHANGED <<taskVars, passed>>
    \/ Start /\ UNCHANGED <<taskVars, passed>>
    \/ \E x \in Jobs \cup {NoJob} : \E raised \in BOOLEAN :
          Worker(x, raised) /\ UNCHANGED <<taskVars, passed>>

TaskSpec == Init /\ [][TaskNext]_vars

----------------------------------------------------------------------------
\* A loader that is never stopped

\* The priority of schedule(jobs) without a second argument
DefaultPriority == 0

\* The calls of the client without stop() and at the default priority, and the workers
LiveNext ==
    \/ \E jobs \in SUBSET Jobs \ {{}} :
          Schedule(jobs, DefaultPriority) /\ UNCHANGED <<taskVars, passed>>
    \/ \E jobs \in tasks : TaskRemove(jobs) /\ UNCHANGED taskVars
    \/ \E rm \in removers : RemoveResume(rm) /\ UNCHANGED <<taskVars, passed>>
    \/ Start /\ UNCHANGED <<taskVars, passed>>
    \/ \E x \in Jobs \cup {NoJob} : \E raised \in BOOLEAN :
          Worker(x, raised) /\ UNCHANGED <<taskVars, passed>>

\* The thread pool runs every worker() it was given, and every job body returns or
\* throws: a thread that is due to enter the critical section of worker() enters it
WorkerRuns(x) ==
    \E raised \in BOOLEAN : Worker(x, raised) /\ UNCHANGED <<taskVars, passed>>

LiveSpec ==
    /\ Init
    /\ [][LiveNext]_vars
    /\ \A x \in Jobs \cup {NoJob} : WF_vars(WorkerRuns(x))

----------------------------------------------------------------------------
\* Vocabulary of the properties

\* The jobs reachable from the jobs of S through declared dependencies, S included
RECURSIVE Closure(_)
Closure(S) ==
    LET T == S \cup UNION {dependencies[j] : j \in S}
    IN  IF T = S THEN S ELSE Closure(T)

\* The transitive prerequisites of a job
Prerequisites(job) == Closure(dependencies[job])

\* The jobs in the pending map
Pending == DOMAIN scheduled_jobs

\* The jobs in the ready queue
Ready == {ready_queue[k] : k \in DOMAIN ready_queue}

\* A worker is executing the body of the job (or is about to commit its outcome)
Executing(job) == threads[job] > 0

\* The kind of the failure a job has captured
Kind(job) == exception[job].code

\* The String `text` contains the String `part`
Mentions(text, part) ==
    \E i \in 1..(Len(text) - Len(part) + 1) : SubSeq(text, i, i + Len(part) - 1) = part

\* LoadJob::status() in the next state
statusNext(job) == statusOf(is_finished'[job], exception'[job])

\* The jobs reachable from the jobs of T through declared dependencies that stay inside S
RECURSIVE ClosureIn(_, _)
ClosureIn(S, T) ==
    LET U == T \cup UNION {dependencies[j] \cap S : j \in T}
    IN  IF U = T THEN T ELSE ClosureIn(S, U)

\* The job set S contains a dependency cycle
HasCycleIn(S) == \E j \in S : j \in ClosureIn(S, dependencies[j] \cap S)

\* The step is the critical section in which a worker commits that the body of x raised
BodyRaised(x) ==
    /\ Executing(x)
    /\ ~is_finished[x]
    /\ is_finished'[x]
    /\ exception'[x].code = "ASYNC_LOAD_FAILED"

\* The step is a worker taking `job` from the ready queue
Taken(job) == job \notin started /\ job \in started'

\* The step is a call prioritize(job, p)
PrioritizeCalled(job, p) == Prioritize(job, p)

\* The step is a call schedule(jobs, .), returning or throwing
ScheduleCalled(jobs) == (\E p \in Priorities : Schedule(jobs, p)) \/ ScheduleFailed(jobs)

\* The step is the drop of the Task owning `jobs`, none of which a worker has
\* picked up, with remove() visiting them in `order`
DroppedUnstarted(jobs, order) ==
    /\ jobs \in tasks
    /\ jobs \cap started = {}
    /\ order \in Orders(jobs)
    /\ tasks' = tasks \ {jobs}
    /\ \E r \in remove(State, order) : r.waiting = NoJob /\ Install(r.state)

\* i comes before k in the visiting order
Before(order, i, k) ==
    \E m, n \in DOMAIN order : m < n /\ order[m] = i /\ order[n] = k

----------------------------------------------------------------------------
\* Properties

\* C1: as long as no body has raised, a job whose body a worker has started has every
\* declared prerequisite in status SUCCESS (the prerequisite's body returned before).
C1_TopologicalExecution ==
    (\A j \in Jobs : Kind(j) # "ASYNC_LOAD_FAILED") =>
        \A j \in Jobs : Executing(j) => \A d \in dependencies[j] : status(d) = "SUCCESS"

\* C2: stop() followed by start() keeps the work going: whenever the loader is running,
\* no stop() is in progress and a job waits in the ready queue, a worker is alive in the pool to take it (only
\* workers take jobs, and start() and enqueue() spawn one only below the cap, so a
\* running loader with ready jobs and no worker never completes them).
C2_StopResumeProgress ==
    (is_running /\ ~stopping /\ Ready # {}) => \E x \in Jobs \cup {NoJob} : threads[x] > 0

\* C3: the loader calls setSuccess/setFailure exactly once on a job that has left
\* PENDING and never on a job that is PENDING, so that its outcome is set once.
C3_ExactlyOnceCompletion ==
    \A j \in Jobs : calls[j] = IF status(j) = "PENDING" THEN 0 ELSE 1

\* C4: when the body of x raises, x ends FAILED with ASYNC_LOAD_FAILED and every job
\* that is pending then and has x among its transitive prerequisites ends FAILED
\* with ASYNC_LOAD_DEPENDENCY_FAILED, with a message naming itself and x, and its
\* body is not run.
C4_FailureFanOut ==
    [][\A x \in Jobs : BodyRaised(x) =>
          /\ statusNext(x) = "FAILED"
          /\ \A d \in Pending \ {x} : x \in Prerequisites(d) =>
                /\ statusNext(d) = "FAILED"
                /\ exception'[d].code = "ASYNC_LOAD_DEPENDENCY_FAILED"
                /\ Mentions(exception'[d].message, name[d])
                /\ Mentions(exception'[d].message, name[x])
                /\ d \notin started']_vars

\* C7: right after prioritize(j, p) on a pending job j, every pending job that is a
\* transitive prerequisite of j has effective priority >= p.
C7_PriorityInheritance ==
    [][\A j \in Jobs : \A p \in Priorities :
          (j \in Pending /\ PrioritizeCalled(j, p)) =>
              \A d \in Prerequisites(j) \cap DOMAIN scheduled_jobs' :
                  scheduled_jobs'[d].priority >= p]_vars

ChainIn(t, a, b) ==
    /\ a \in t /\ b \in t
    /\ dependencies[b] = {a}
    /\ a \in Ready
    /\ b \in Pending /\ scheduled_jobs[b].dependencies_left > 0

\* C6: when a Task owning a ready job a and a job b that waits for a alone is dropped
\* before either started, a ends with ASYNC_LOAD_CANCELED, and b ends with
\* ASYNC_LOAD_DEPENDENCY_FAILED if remove() visits a before b and with
\* ASYNC_LOAD_CANCELED if it visits b first.
C6_ChainCancelKinds ==
    [][\A t \in tasks : \A order \in Orders(t) : \A a, b \in Jobs :
          (ChainIn(t, a, b) /\ DroppedUnstarted(t, order)) =>
              /\ statusNext(a) = "FAILED" /\ statusNext(b) = "FAILED"
              /\ exception'[a].code = "ASYNC_LOAD_CANCELED"
              /\ exception'[b].code = IF Before(order, a, b)
                                      THEN "ASYNC_LOAD_DEPENDENCY_FAILED"
                                      ELSE "ASYNC_LOAD_CANCELED"]_vars

\* C6 as stated: b ends with ASYNC_LOAD_DEPENDENCY_FAILED in every visiting order.
C6_ChainAlwaysDependencyFailed ==
    [][\A t \in tasks : \A order \in Orders(t) : \A a, b \in Jobs :
          (ChainIn(t, a, b) /\ DroppedUnstarted(t, order)) =>
              /\ statusNext(a) = "FAILED" /\ statusNext(b) = "FAILED"
              /\ exception'[a].code = "ASYNC_LOAD_CANCELED"
              /\ exception'[b].code = "ASYNC_LOAD_DEPENDENCY_FAILED"]_vars

\* A Task was dropped before any job ever started, and left B, which declares A
\* alone, and A both canceled: remove() visited B first
C6_Witness ==
    /\ started = {}
    /\ tasks = {}
    /\ dependencies["B"] = {"A"}
    /\ Kind("A") = "ASYNC_LOAD_CANCELED"
    /\ Kind("B") = "ASYNC_LOAD_CANCELED"

\* C8: when a worker takes a job from the ready queue, no job left in the queue has a
\* higher priority, by its key, its Info or its LoadJob::priority.
C8_PriorityDominance ==
    [][\A j \in Jobs : Taken(j) =>
          \A k \in DOMAIN ready_queue' :
              /\ k.priority <= dispatched'[j].priority
              /\ scheduled_jobs'[ready_queue'[k]].priority <= scheduled_jobs'[j].priority
              /\ priority'[ready_queue'[k]] <= priority'[j]]_vars

\* A job taken with priority 1 is executing while a job that was enqueued before it
\* still waits with priority 0
C8_Witness ==
    \E j \in Jobs :
        /\ Executing(j)
        /\ dispatched[j].priority = 1
        /\ \E k \in DOMAIN ready_queue :
              k.priority = 0 /\ k.ready_seqno < dispatched[j].ready_seqno

\* C9: when a worker takes a job from the ready queue, no job left in the queue with
\* the same priority was enqueued before it (has a smaller ready_seqno).
C9_FifoAtTake ==
    [][\A j \in Jobs : Taken(j) =>
          \A k \in DOMAIN ready_queue' :
              k.priority = dispatched'[j].priority =>
                  k.ready_seqno > dispatched'[j].ready_seqno]_vars

\* C9 as stated, for two jobs dispatched one after the other by the single worker:
\* with the same priority at their dispatch, the one dispatched first entered the
\* ready queue first.
C9_FifoByDispatch ==
    [][\A a, b \in Jobs :
          (max_threads = 1 /\ Taken(a) /\ dispatched[b] # NoKey
              /\ dispatched[b].priority = dispatched'[a].priority) =>
                  dispatched[b].ready_seqno < dispatched'[a].ready_seqno]_vars

\* On a single-worker loader a job taken with priority 1 is executing while a job
\* enqueued after it waits with the same priority
C9_Witness ==
    /\ max_threads = 1
    /\ \E j \in Jobs :
          /\ Executing(j)
          /\ dispatched[j].priority = 1
          /\ \E k \in DOMAIN ready_queue :
                k.priority = 1 /\ k.ready_seqno > dispatched[j].ready_seqno

\* C10: a call of schedule() with a job set that contains a dependency cycle leaves
\* the pending map, the ready queue, the finished set, the seqno counter, the worker
\* count and every job's priority and status unchanged, whatever the jobs' names.
C10_CycleRejected ==
    [][\A jobs \in SUBSET Jobs \ {{}} :
          (HasCycleIn(jobs) /\ ScheduleCalled(jobs)) =>
              UNCHANGED <<scheduled_jobs, ready_queue, finished_jobs, last_ready_seqno,
                          workers, priority, is_finished, exception>>]_vars

\* C11: a call of schedule() with a set that holds a job of status SUCCESS or FAILED,
\* or a job that is in the pending map, throws ASYNC_LOAD_SCHEDULE_FAILED and leaves
\* the pending map, the ready queue and every priority as they were.
C11_RejectAtomically ==
    [][\A jobs \in SUBSET Jobs \ {{}} :
          ((\E j \in jobs : status(j) # "PENDING" \/ j \in Pending) /\ ScheduleCalled(jobs)) =>
              /\ thrown' = "ASYNC_LOAD_SCHEDULE_FAILED"
              /\ UNCHANGED <<scheduled_jobs, ready_queue, priority>>]_vars

\* schedule() has just thrown while the loader holds a pending job and some job is
\* finished
C11_Witness ==
    /\ thrown = "ASYNC_LOAD_SCHEDULE_FAILED"
    /\ Pending # {}
    /\ \E j \in Jobs : status(j) # "PENDING"

\* C12: a wait() or waitNoThrow() call has returned only if the job is not PENDING;
\* wait() has returned normally only on SUCCESS and has thrown only on FAILED, the
\* job's own exception; waitNoThrow() never throws; a thread blocked in either (the
\* client or a remove()) on a job that is no longer PENDING has been notified.
C12_WaiterConsistency ==
    /\ waiter.pc \in {"returned", "raised"} => status(waiter.job) # "PENDING"
    /\ (waiter.pc = "returned" /\ ~waiter.nothrow) => status(waiter.job) = "SUCCESS"
    /\ waiter.pc = "raised" =>
          /\ ~waiter.nothrow
          /\ status(waiter.job) = "FAILED"
          /\ waiter.exception = exception[waiter.job]
    /\ waiter.pc = "blocked" =>
          /\ waiters[waiter.job] > 0
          /\ status(waiter.job) = "PENDING" \/ notified[waiter.job]
    /\ \A rm \in removers :
          /\ waiters[rm.waiting] > 0
          /\ status(rm.waiting) = "PENDING" \/ notified[rm.waiting]

\* The client blocked in wait() before the job completed, the job has failed since,
\* and the client has been notified
C12_Witness ==
    /\ waiter.pc = "blocked"
    /\ ~waiter.nothrow
    /\ status(waiter.job) = "FAILED"
    /\ notified[waiter.job]

\* C13: a remove() blocked on a job waits for a job that a worker is executing, or has
\* been notified of the outcome the worker committed: SUCCESS, or FAILED with
\* ASYNC_LOAD_FAILED; so either the worker's commit or the remover's return can
\* take place.
C13_RemoveWaitsForExecuting ==
    \A rm \in removers :
        \/ /\ status(rm.waiting) = "PENDING"
           /\ Executing(rm.waiting)
           /\ rm.waiting \in Pending
        \/ /\ status(rm.waiting) # "PENDING"
           /\ notified[rm.waiting]
           /\ Kind(rm.waiting) \in {"none", "ASYNC_LOAD_FAILED"}

\* A remove() is blocked on a job whose body has raised in the meantime
C13_Witness ==
    \E rm \in removers : Kind(rm.waiting) = "ASYNC_LOAD_FAILED"

\* The step is the return of remove(jobs): of the call a dropped Task made, or of
\* one that was blocked in waitNoThrow()
RemoveReturned(jobs) ==
    /\ jobs \in tasks \/ \E rm \in removers : rm.jobs = jobs
    /\ jobs \notin tasks'
    /\ \A rm \in removers' : rm.jobs # jobs

\* C14: when remove(jobs) returns, no job of the set is in the pending map, in the
\* ready queue or in the finished set.
C14_RemovePostcondition ==
    [][\A jobs \in SUBSET Jobs \ {{}} : RemoveReturned(jobs) =>
          \A j \in jobs :
              /\ j \notin DOMAIN scheduled_jobs'
              /\ j \notin finished_jobs'
              /\ \A k \in DOMAIN ready_queue' : ready_queue'[k] # j]_vars

\* Every Task has been removed and every remove() has returned; one of the jobs had
\* been taken by a worker and succeeded, another was cancelled
C14_Witness ==
    /\ tasks = {}
    /\ removers = {}
    /\ \E j, k \in Jobs :
          /\ j \in started /\ status(j) = "SUCCESS"
          /\ Kind(k) = "ASYNC_LOAD_CANCELED"

\* The loader is paused: stop() has returned and start() has not been called since
\* (or start() was never called)
Paused == ~is_running /\ ~stopping

\* C15: while the loader is paused no worker thread exists, so no body is executing;
\* no body begins; and a step that is no part of a remove() (a schedule or a
\* prioritize call among them) keeps every pending job that has not started in the
\* pending map with status PENDING, and in the ready queue if it was there.
C15_SoftPause ==
    [][/\ Paused' => \A x \in Jobs \cup {NoJob} : threads'[x] = 0
       /\ Paused => started' = started
       /\ (Paused /\ Paused' /\ tasks \subseteq tasks' /\ removers' = removers) =>
             \A j \in Pending \ started :
                 /\ j \in DOMAIN scheduled_jobs'
                 /\ statusNext(j) = "PENDING"
                 /\ j \in Ready => \E k \in DOMAIN ready_queue' : ready_queue'[k] = j]_vars

\* The loader has run a job and is paused, with a job in the ready queue that no
\* worker has taken and a job that waits for it
C15_Witness ==
    /\ Paused
    /\ started # {}
    /\ \E j \in Ready \ started : \E d \in Pending : j \in dependencies[d]

\* Each pending job has at least the priority of every pending job that depends on it
PriorityOrdered ==
    \A j \in Pending : \A d \in Prerequisites(j) \cap Pending :
        scheduled_jobs[d].priority >= scheduled_jobs[j].priority

\* C16: a pending job has at least the priority it was scheduled with (schedule gives
\* it that priority and no step lowers it), and at least the priority of every
\* pending job that depends on it through declared dependencies, also along chains
\* through jobs that are not in the pending map.
C16_EffectivePriority ==
    [][/\ \A jobs \in SUBSET Jobs \ {{}} : \A p \in Priorities :
             Schedule(jobs, p) => \A j \in jobs : scheduled_jobs'[j].priority >= p
       /\ \A j \in Pending \cap DOMAIN scheduled_jobs' :
             scheduled_jobs'[j].priority >= scheduled_jobs[j].priority
       /\ PriorityOrdered']_vars

\* C17: for two jobs J and D in the pending map, D is in J's dependent_jobs exactly
\* when J is one of D's declared dependencies.
C17_BackLinks ==
    \A J, D \in Pending :
        D \in scheduled_jobs[J].dependent_jobs <=> J \in dependencies[D]

\* C18: a pending job with dependencies_left = 0 that no worker has picked up has a
\* non-zero ready_seqno, and the ready queue holds it under the key made of its
\* priority and its ready_seqno.
C18_ReadyInvariant ==
    \A j \in Pending :
        (scheduled_jobs[j].dependencies_left = 0 /\ j \notin started) =>
            /\ scheduled_jobs[j].ready_seqno # 0
            /\ scheduled_jobs[j].priority = priority[j]
            /\ key(scheduled_jobs[j]) \in DOMAIN ready_queue
            /\ ready_queue[key(scheduled_jobs[j])] = j

\* A job that became ready when its prerequisite succeeded waits in the ready queue
\* with priority 1 behind a job that was enqueued later
C18_Witness ==
    \E j \in Pending \ started : \E d \in dependencies[j] : \E k \in DOMAIN ready_queue :
        /\ status(d) = "SUCCESS" /\ d \in started
        /\ scheduled_jobs[j].dependencies_left = 0
        /\ scheduled_jobs[j].priority = 1
        /\ ready_queue[k] # j

\* C19: the declared-dependency relation restricted to the jobs in the pending map
\* has no cycle, also when the jobs were scheduled in separate calls.
C19_PendingAcyclic == ~HasCycleIn(Pending)

\* C20: no job is both in the pending map and in the finished set, and finish()
\* moves a job from the pending map to the finished set at most once.
C20_PendingFinishedDisjoint ==
    /\ Pending \cap finished_jobs = {}
    /\ \A j \in Jobs : moves[j] <= 1

\* C21: a step that keeps a job in the pending map does not lower the priority in its
\* Info, and the LoadJob::priority of every pending job equals the priority in its Info.
C21_PriorityMonotonic ==
    [][/\ \A j \in Pending \cap DOMAIN scheduled_jobs' :
             scheduled_jobs'[j].priority >= scheduled_jobs[j].priority
       /\ \A j \in DOMAIN scheduled_jobs' :
             priority'[j] = scheduled_jobs'[j].priority]_vars

\* A pending job holds priority 1 after another job has completed, while a third
\* job is pending with priority 0
C21_Witness ==
    \E j, k, l \in Jobs :
        /\ j \in Pending /\ scheduled_jobs[j].priority = 1 /\ priority[j] = 1
        /\ status(k) # "PENDING"
        /\ l \in Pending /\ scheduled_jobs[l].priority = 0

\* The jobs that the step fails on their own account: the body raised, or remove()
\* cancelled them
FailedRoots ==
    {x \in Jobs : /\ status(x) = "PENDING"
                  /\ statusNext(x) = "FAILED"
                  /\ exception'[x].code \in {"ASYNC_LOAD_FAILED", "ASYNC_LOAD_CANCELED"}}

\* The jobs of S and the jobs that transitively depend on a job of S
Subtree(S) == S \cup {d \in Jobs : Prerequisites(d) \cap S # {}}

\* C22: in a step in which jobs fail or are cancelled, every job that changes status
\* is one of them or a pending job that transitively depends on one of them; every
\* other pending job stays in the pending map with status PENDING, its
\* dependencies_left and its priority, and keeps its ready-queue entry unless the
\* worker takes it in this step; and a worker of a running loader that commits a
\* failure takes a job when one of the other jobs is ready.
C22_FailureFrame ==
    [][FailedRoots # {} =>
          /\ \A j \in Jobs : statusNext(j) # status(j) =>
                j \in Subtree(FailedRoots) /\ (j \in FailedRoots \/ j \in Pending)
          /\ \A j \in Pending \ Subtree(FailedRoots) :
                /\ j \in DOMAIN scheduled_jobs'
                /\ statusNext(j) = "PENDING"
                /\ scheduled_jobs'[j].dependencies_left = scheduled_jobs[j].dependencies_left
                /\ scheduled_jobs'[j].priority = scheduled_jobs[j].priority
                /\ \/ Taken(j) /\ j \in Ready /\ Executing(j)'
                   \/ /\ scheduled_jobs'[j].ready_seqno = scheduled_jobs[j].ready_seqno
                      /\ \A k \in DOMAIN ready_queue : ready_queue[k] = j =>
                            k \in DOMAIN ready_queue' /\ ready_queue'[k] = j
          /\ \A x \in Jobs :
                (BodyRaised(x) /\ is_running /\ Ready \ Subtree(FailedRoots) # {}) =>
                    \E j \in Ready : Taken(j)]_vars

\* The body of a job has raised and a job that declares it has failed with it, while
\* a job outside the subtree is pending and a worker is executing it
C22_Witness ==
    \E x, d, j \in Jobs :
        /\ Kind(x) = "ASYNC_LOAD_FAILED"
        /\ x \in dependencies[d] /\ Kind(d) = "ASYNC_LOAD_DEPENDENCY_FAILED"
        /\ x \notin Prerequisites(j)
        /\ j \in Pending /\ status(j) = "PENDING" /\ Executing(j)

CanceledRoots ==
    {x \in Jobs : /\ status(x) = "PENDING"
                  /\ statusNext(x) = "FAILED"
                  /\ exception'[x].code = "ASYNC_LOAD_CANCELED"}

\* The jobs of S and the pending jobs reachable from them through dependent_jobs
RECURSIVE BackLinked(_)
BackLinked(S) ==
    LET T == S \cup UNION {scheduled_jobs[j].dependent_jobs : j \in S \cap Pending}
    IN  IF T = S THEN S ELSE BackLinked(T)

\* The step belongs to the call remove(jobs): the drop of the Task that owns `jobs`, or
\* the return of waitNoThrow() in that call
RemoveRunning(jobs) ==
    \/ jobs \in tasks /\ jobs \notin tasks'
    \/ \E rm \in removers : rm.jobs = jobs /\ rm \notin removers'

\* C24: when remove(jobs) cancels a job, every pending job outside `jobs` that is
\* reachable from it through dependent_jobs is FAILED afterwards with
\* ASYNC_LOAD_DEPENDENCY_FAILED, has left the pending map and is in the finished set;
\* a job leaves the finished set only in a remove() call whose set contains it; and
\* the body of a job that failed with ASYNC_LOAD_DEPENDENCY_FAILED has never run.
C24_CancelReachesOutside ==
    [][/\ \A jobs \in SUBSET Jobs \ {{}} : RemoveRunning(jobs) =>
             \A x \in CanceledRoots : \A d \in (BackLinked({x}) \cap Pending) \ jobs :
                 /\ statusNext(d) = "FAILED"
                 /\ exception'[d].code = "ASYNC_LOAD_DEPENDENCY_FAILED"
                 /\ d \notin DOMAIN scheduled_jobs'
                 /\ d \in finished_jobs'
       /\ \A d \in finished_jobs \ finished_jobs' :
             \E jobs \in SUBSET Jobs : d \in jobs /\ RemoveRunning(jobs)
       /\ \A d \in Jobs :
             exception'[d].code = "ASYNC_LOAD_DEPENDENCY_FAILED" => d \notin started']_vars

\* A job that no Task owns any more was cancelled, and a job that declares it and
\* belongs to a live Task is in the finished set, failed by its dependency
C24_Witness ==
    \E x, d \in Jobs : \E t \in tasks :
        /\ Kind(x) = "ASYNC_LOAD_CANCELED"
        /\ \A u \in tasks : x \notin u
        /\ d \in t /\ x \in dependencies[d]
        /\ Kind(d) = "ASYNC_LOAD_DEPENDENCY_FAILED"
        /\ d \in finished_jobs

\* C25: no chassert() of loaded(), failed() or enqueue() is ever violated: they are
\* entered only for a job in the pending map, every dependent job of a job that
\* completes is in the pending map, and enqueue() finds dependencies_left = 0 and
\* ready_seqno = 0.
C25_AssertionsHold == ~assert_failed

\* The keys under which the ready queue q holds the job
EntriesOf(q, job) == {k \in DOMAIN q : q[k] = job}

\* C26: a step that raises the priority of a pending job that is in the ready queue
\* leaves the job with one entry, keyed by the new priority and the same ready_seqno,
\* as it had one before; a step that raises the priority of a pending job with
\* ready_seqno = 0 (waiting for prerequisites, or taken by a worker) changes both of
\* the job's priority fields and gives it no entry; and a worker takes only jobs that
\* no worker has taken before, so no job is held by two workers.
C26_RekeyInPlace ==
    [][/\ \A j \in Pending \cap DOMAIN scheduled_jobs' :
             scheduled_jobs'[j].priority > scheduled_jobs[j].priority =>
                 /\ scheduled_jobs'[j].ready_seqno = scheduled_jobs[j].ready_seqno
                 /\ priority'[j] = scheduled_jobs'[j].priority
                 /\ IF scheduled_jobs[j].ready_seqno # 0
                    THEN /\ EntriesOf(ready_queue, j) = {key(scheduled_jobs[j])}
                         /\ EntriesOf(ready_queue', j) = {key(scheduled_jobs'[j])}
                    ELSE /\ EntriesOf(ready_queue, j) = {}
                         /\ EntriesOf(ready_queue', j) = {}
       /\ \A j \in Jobs : threads'[j] > threads[j] => j \notin started /\ threads[j] = 0
       /\ \A j \in started' : EntriesOf(ready_queue', j) = {}]_vars

\* Of two jobs scheduled in one set with priority 0, one is in the ready queue under a
\* key of priority 1 and the other still has priority 0; and a job that a worker took
\* under a key of priority 0 is executing with priority 1
C26_Witness ==
    /\ \E t \in tasks : \E j, k \in t :
          /\ j \in Pending /\ k \in Pending
          /\ scheduled_jobs[k].priority = 0
          /\ scheduled_jobs[j].ready_seqno # 0
          /\ ReadyKey(1, scheduled_jobs[j].ready_seqno) \in DOMAIN ready_queue
    /\ \E e \in Pending :
          /\ Executing(e)
          /\ dispatched[e].priority = 0
          /\ scheduled_jobs[e].priority = 1 /\ priority[e] = 1

\* The sum of f over the set S
RECURSIVE SumOver(_, _)
SumOver(f, S) ==
    IF S = {} THEN 0
    ELSE LET x == CHOOSE y \in S : TRUE IN f[x] + SumOver(f, S \ {x})

\* The number of worker() loops that the pool holds and that have not returned
WorkerLoops(th) == SumOver(th, Jobs \cup {NoJob})

\* std::min
Min(a, b) == IF a < b THEN a ELSE b

\* C27: the worker count never exceeds max_threads, and no more worker() loops than
\* the worker count exist, so at most max_threads bodies execute at a time; start()
\* spawns min(max_threads - workers, size of the ready queue) workers; and a step
\* that enqueues n jobs spawns min(n, max_threads - workers) workers when the loader
\* is running and none when it is not.
C27_WorkerCap ==
    [][/\ workers' <= max_threads
       /\ WorkerLoops(threads') <= workers'
       /\ SumOver(threads', Jobs) <= max_threads
       /\ Start =>
             /\ workers' - workers = Min(max_threads - workers, Cardinality(DOMAIN ready_queue))
             /\ threads'[NoJob] - threads[NoJob] = workers' - workers
       /\ (~Start /\ last_ready_seqno' > last_ready_seqno) =>
             workers' - workers =
                 IF is_running
                 THEN Min(last_ready_seqno' - last_ready_seqno, max_threads - workers)
                 ELSE 0
       /\ (~Start /\ workers' > workers) => last_ready_seqno' > last_ready_seqno]_vars

\* The running loader has as many workers as max_threads allows, a body is executing,
\* and a job waits in the ready queue for which no worker was spawned
C27_Witness ==
    /\ is_running
    /\ workers = max_threads
    /\ WorkerLoops(threads) = max_threads
    /\ \E j \in Jobs : Executing(j)
    /\ Ready # {}

\* The names that the String `text` lists between its " -> " separators
RECURSIVE SplitChain(_)
SplitChain(text) ==
    IF \E i \in DOMAIN text : text[i] = " -> "
    THEN LET i == CHOOSE k \in DOMAIN text :
                      text[k] = " -> " /\ \A m \in 1..(k - 1) : text[m] # " -> "
         IN  <<SubSeq(text, 1, i - 1)>> \o SplitChain(SubSeq(text, i + 1, Len(text)))
    ELSE <<text>>

\* The chain lists jobs of the set `jobs`, the first of them again at its end and no
\* other twice, each followed by one of its declared dependencies
CycleShape(jobs, chain) ==
    LET names == SplitChain(chain)
        n == Len(names)
    IN  /\ n >= 2
        /\ names[1] = names[n]
        /\ \A i \in 1..n : \E j \in jobs : name[j] = names[i]
        /\ \A i, k \in 1..(n - 1) : names[i] = names[k] => i = k
        /\ \A i \in 1..(n - 1) : \E j \in jobs : \E d \in jobs \cap dependencies[j] :
              name[j] = names[i] /\ name[d] = names[i + 1]

\* C28: when schedule(jobs, .) throws for a dependency cycle, the chain in the message
\* starts and ends with the same job, lists only jobs of `jobs`, each followed by one
\* of its declared dependencies, and lists no job twice but the first: a job from
\* which the search reached the cycle and that is not on it is not listed.
C28_CycleReportShape ==
    [][\A jobs \in SUBSET Jobs \ {{}} :
          (ScheduleFailed(jobs) /\ cycle_report' # NoCycle) =>
              /\ cycle_report'.jobs = jobs
              /\ CycleShape(jobs, cycle_report'.chain)]_vars

\* schedule() has reported the cycle between A and C for a set that holds B as well,
\* from which the cycle is reached
C28_Witness ==
    /\ thrown = "ASYNC_LOAD_SCHEDULE_FAILED"
    /\ cycle_report.jobs = {"A", "B", "C"}
    /\ dependencies["B"] = {"A"}
    /\ Len(SplitChain(cycle_report.chain)) = 3

\* schedule() has returned a Task whose job set held the job
Scheduled(job) == job \in Pending \/ status(job) # "PENDING"

\* The Task objects that own the job
Owners(h, job) == {t \in Handles : h[t].loader /\ job \in h[t].jobs}

\* C29: every job that schedule() returned in a Task is owned by one Task object and
\* was neither passed to remove() nor detached, or is owned by none and was either
\* passed to remove() once or detached, whatever moves, merges, removes, detaches and
\* drops the client has made; and the drop of a Task object without a loader changes
\* nothing in the loader and calls no remove().
C29_TaskOwnership ==
    [][/\ \A j \in Jobs : (j \in DOMAIN scheduled_jobs' \/ statusNext(j) # "PENDING") =>
             \/ Cardinality(Owners(handle', j)) = 1 /\ passed'[j] = 0 /\ j \notin detached'
             \/ Owners(handle', j) = {} /\ passed'[j] = 1 /\ j \notin detached'
             \/ Owners(handle', j) = {} /\ passed'[j] = 0 /\ j \in detached'
       /\ \A t \in Handles : (TaskDrop(t) /\ ~handle[t].loader) =>
             UNCHANGED <<jobVars, loaderVars, tasks, removers, passed, detached>>]_vars

\* C30: between critical sections the workers counter equals the number of worker()
\* loops that were submitted to the pool and have not returned.
C30_WorkerCountAccurate == workers = WorkerLoops(threads)

\* C31: on a started loader that is never stopped, with a pool that runs its workers
\* and bodies that end, a job in the ready queue always has a worker() loop alive to
\* take it, no job is pending when every worker() loop has returned (when wait()
\* can return), and every job of the pending map is eventually passed to finish().
C31_Progress ==
    /\ []((is_running /\ Ready # {}) => WorkerLoops(threads) > 0)
    /\ []((is_running /\ WorkerLoops(threads) = 0) => Pending = {})
    /\ (is_running /\ Pending # {})
          ~> (Pending = {} /\ \A j \in Jobs : status(j) # "PENDING" => moves[j] > 0)

\* On the running loader every worker() loop has returned after B, which declares A,
\* and A have both succeeded
C31_Witness ==
    /\ is_running
    /\ WorkerLoops(threads) = 0
    /\ workers = 0
    /\ "A" \in dependencies["B"]
    /\ status("A") = "SUCCESS" /\ status("B") = "SUCCESS"
    /\ moves["A"] = 1 /\ moves["B"] = 1


\* C32: a worker invokes the body of a job only when no worker has invoked it before
\* and the job is PENDING with no outcome recorded, and the job stays PENDING while the
\* body runs; and a job that holds ASYNC_LOAD_CANCELED or ASYNC_LOAD_DEPENDENCY_FAILED
\* is one whose body no worker has invoked or is running, whatever schedule, prioritize,
\* remove, stop, start and worker steps were made.
C32_BodyAtMostOnce ==
    [][/\ \A j \in Jobs : threads'[j] > threads[j] =>
             /\ threads'[j] = 1
             /\ j \notin started /\ calls[j] = 0 /\ moves[j] = 0
             /\ status(j) = "PENDING" /\ statusNext(j) = "PENDING"
       /\ \A j \in Jobs :
             exception'[j].code \in {"ASYNC_LOAD_CANCELED", "ASYNC_LOAD_DEPENDENCY_FAILED"} =>
                 j \notin started' /\ threads'[j] = 0]_vars

\* After remove() canceled a job that was in the ready queue and failed its dependent,
\* the workers ran the body of a third job, and all of them have returned on the
\* running loader with neither of the two failed jobs started
C32_Witness ==
    \E a, b, c \in Jobs :
        /\ dependencies[a] = {} /\ Kind(a) = "ASYNC_LOAD_CANCELED"
        /\ a \in dependencies[b] /\ Kind(b) = "ASYNC_LOAD_DEPENDENCY_FAILED"
        /\ started = {c} /\ status(c) = "SUCCESS" /\ calls[c] = 1
        /\ is_running /\ \A x \in Jobs \cup {NoJob} : threads[x] = 0


\* C33: between critical sections the ready queue holds exactly the pending jobs with
\* ready_seqno # 0, each under the one key made of the priority and the ready_seqno of
\* its Info; each of them has dependencies_left = 0 and is PENDING; the seqnos in the
\* queue are pairwise distinct and none exceeds last_ready_seqno; and over every step
\* last_ready_seqno does not decrease and every ready_seqno a job is given is above
\* the counter as it was before the step, so that no value is given twice.
C33_ReadyQueueWellFormed ==
    /\ [](/\ \A k \in DOMAIN ready_queue :
                /\ ready_queue[k] \in Pending
                /\ scheduled_jobs[ready_queue[k]].ready_seqno # 0
                /\ k = key(scheduled_jobs[ready_queue[k]])
                /\ k.ready_seqno \in 1..last_ready_seqno
          /\ \A j \in Pending : scheduled_jobs[j].ready_seqno # 0 =>
                /\ EntriesOf(ready_queue, j) = {key(scheduled_jobs[j])}
                /\ scheduled_jobs[j].dependencies_left = 0
                /\ status(j) = "PENDING"
          /\ \A k1, k2 \in DOMAIN ready_queue : k1.ready_seqno = k2.ready_seqno => k1 = k2)
    /\ [][/\ last_ready_seqno' >= last_ready_seqno
          /\ \A j \in DOMAIN scheduled_jobs' :
                LET new == scheduled_jobs'[j].ready_seqno
                    old == IF j \in Pending THEN scheduled_jobs[j].ready_seqno ELSE 0
                IN  (new # 0 /\ new # old) =>
                        /\ new \in (last_ready_seqno + 1)..last_ready_seqno'
                        /\ \A i \in DOMAIN scheduled_jobs' \ {j} :
                              scheduled_jobs'[i].ready_seqno # new]_vars


\* Two jobs wait in the ready queue, one of them under a key of priority 1, after a
\* third job was given the seqno 3 and has left the queue
C33_Witness ==
    /\ Cardinality(DOMAIN ready_queue) = 2
    /\ last_ready_seqno = 3
    /\ \A k \in DOMAIN ready_queue : k.ready_seqno < 3
    /\ \E k \in DOMAIN ready_queue : k.priority = 1
    /\ \E j \in Jobs : status(j) # "PENDING"

====
